---- MODULE Spec2Model ----
(***************************************************************************)
(* Clustering and visit scheduling service (app/routes.py,                 *)
(* app/scheduling.py, app/clustering.py, app/evaluation.py).               *)
(*                                                                         *)
(* Conventions of the model                                                *)
(*  - a time string "HH:MM" is the tuple of its four digits, so "08:00"    *)
(*    is <<0,8,0,0>>; a datetime is the number of minutes since            *)
(*    1900-01-01 00:00 (the date strptime gives a bare time of day);       *)
(*  - a coordinate is <<lat, lon>> on a grid whose unit is one kilometre   *)
(*    along a meridian, so that the geodesic distance of two points of     *)
(*    equal longitude is the difference of their latitudes;                *)
(*  - Python's None is the empty tuple where a list or an entry may be     *)
(*    missing; a dict keyed 0..k-1 is a function on 0..k-1.                *)
(***************************************************************************)
EXTENDS Integers, Sequences, FiniteSets, TLC

VARIABLES
    data,                 \* the request (ClusteringInput)
    pc,                   \* where cluster_data stands
    response,             \* what cluster_data returned or raised
    normalized_data,      \* MinMaxScaler output, rows of fractions
    ctask,                \* state of each clustering restart on the pool
    results,              \* executor.map's result slots, in submission order
    best_clusters,        \* group id -> list of locations
    best_labels,          \* labels of the selected run
    best_centroids,       \* centroids of the selected run
    best_metrics,         \* metrics of the selected run
    stask,                \* state of each group's scheduling task on the pool
    search,               \* per group, the locals of iterative_schedule_cluster
    grouped_clusters,     \* group id -> {schedule, unvisitable}
    unvisitable_locations,\* leftovers handed to handle_unvisitable
    final_unvisitable,    \* leftovers handle_unvisitable returned
    pre_rescue,           \* history: the groups' schedules before handle_unvisitable
    passes,               \* history: per group, the passes of iterative_schedule_cluster
    schedule_results,     \* the results dict of parallel_schedule_clusters
    call                  \* one direct application of schedule_single_location

vars == <<data, pc, response, normalized_data, ctask, results, best_clusters,
          best_labels, best_centroids, best_metrics, stask, search,
          grouped_clusters, unvisitable_locations, final_unvisitable,
          pre_rescue, passes, schedule_results, call>>

----------------------------------------------------------------------------
(* Bounds of the model *)

\* longest list of locations of a request
MaxLocs == 3

\* clustering restarts of a request (the code passes num_iterations=10)
NumRestarts == 2

\* scheduling attempts per group (max_iterations, 20 by default)
MaxAttempts == 2

\* longest schedule handed directly to schedule_single_location
MaxEvents == 2

(* Program constants *)

\* ThreadPoolExecutor(max_workers=4) of the clustering restarts
ClusterWorkers == 4

\* num_threads=4 of parallel_schedule_clusters
ScheduleWorkers == 4

----------------------------------------------------------------------------
(* Small helpers *)

Abs(x) == IF x < 0 THEN -x ELSE x

Min2(a, b) == IF a <= b THEN a ELSE b

Max2(a, b) == IF a >= b THEN a ELSE b

RECURSIVE SumSeq(_)
SumSeq(s) == IF s = <<>> THEN 0 ELSE Head(s) + SumSeq(Tail(s))

\* the sequence s without its element at position i
RemoveAt(s, i) == SubSeq(s, 1, i - 1) \o SubSeq(s, i + 1, Len(s))

----------------------------------------------------------------------------
(* Times of day: datetime.strptime / strftime with "%H:%M", timedelta *)

\* datetime.strptime(s, "%H:%M"): minutes since 1900-01-01 00:00
strptime(s) == (10 * s[1] + s[2]) * 60 + 10 * s[3] + s[4]

\* dt.strftime("%H:%M"): the date is dropped, the time of day zero-padded
strftime(t) ==
    LET m == t % 1440
        h == m \div 60
        mi == m % 60
    IN <<h \div 10, h % 10, mi \div 10, mi % 10>>

\* the strings of four digits datetime.strptime(s, "%H:%M") accepts; it
\* raises ValueError on the others ("25:00")
Parses(s) == 10 * s[1] + s[2] <= 23 /\ 10 * s[3] + s[4] <= 59

\* timedelta(hours=h) in minutes
timedelta(h) == 60 * h

\* Python's < on two strings of four digits (lexicographic)
StrLess(a, b) ==
    \E i \in 1..4 : a[i] < b[i] /\ \A j \in 1..(i - 1) : a[j] = b[j]

----------------------------------------------------------------------------
(* schedule_single_location and create_schedule_entry *)

create_schedule_entry(location, start_time, end_time) ==
    [name |-> location.name,
     coordinates |-> location.coordinates,
     start_time |-> strftime(start_time),
     end_time |-> strftime(end_time)]

\* ScanEvents with the gap between two events tested by < instead of <=
RECURSIVE ScanEventsStrict(_, _, _, _, _)
ScanEventsStrict(location, current_schedule, start_time, end_time, i) ==
    IF i > Len(current_schedule) THEN <<>>
    ELSE
        LET event_start == strptime(current_schedule[i].start_time)
        IN IF i = 1 /\ end_time <= event_start
           THEN <<create_schedule_entry(location, start_time, end_time)>>
           ELSE IF i > 1
                   /\ strptime(current_schedule[i - 1].end_time)
                        + timedelta(location.duration) < event_start
           THEN LET prev_event_end == strptime(current_schedule[i - 1].end_time)
                IN <<create_schedule_entry(location, prev_event_end,
                        prev_event_end + timedelta(location.duration))>>
           ELSE ScanEventsStrict(location, current_schedule, start_time, end_time,
                                 i + 1)

\* the for loop over the events, from event i on: the entry it returns, as a
\* one-element tuple, or <<>> when the loop ends without returning
RECURSIVE ScanEvents(_, _, _, _, _)
ScanEvents(location, current_schedule, start_time, end_time, i) ==
    IF i > Len(current_schedule) THEN <<>>
    ELSE
        LET event_start == strptime(current_schedule[i].start_time)
        IN IF i = 1 /\ end_time <= event_start
           THEN <<create_schedule_entry(location, start_time, end_time)>>
           ELSE IF i > 1
                   /\ strptime(current_schedule[i - 1].end_time)
                        + timedelta(location.duration) <= event_start
           THEN LET prev_event_end == strptime(current_schedule[i - 1].end_time)
                IN <<create_schedule_entry(location, prev_event_end,
                        prev_event_end + timedelta(location.duration))>>
           ELSE ScanEvents(location, current_schedule, start_time, end_time, i + 1)

\* the bound both the step-2 test and the after-last test compare with
LatestEnd(location, daily_end) ==
    Min2(strptime(daily_end), strptime(location.closing_hours))

\* the earliest possible start time (line 55)
EarliestStart(location, daily_start) ==
    Max2(strptime(daily_start), strptime(location.opening_hours))

\* the placement after the last event (lines 83-88), <<>> when it does not fit
AfterLast(location, current_schedule, daily_end) ==
    LET last_event_end == strptime(current_schedule[Len(current_schedule)].end_time)
    IN IF last_event_end + timedelta(location.duration) <= LatestEnd(location, daily_end)
       THEN <<create_schedule_entry(location, last_event_end,
                  last_event_end + timedelta(location.duration))>>
       ELSE <<>>

\* <<entry>> or <<>> (None)
schedule_single_location(location, current_schedule, daily_start, daily_end) ==
    LET start_time == EarliestStart(location, daily_start)
        end_time == start_time + timedelta(location.duration)
        scanned == ScanEvents(location, current_schedule, start_time, end_time, 1)
        fitted == IF current_schedule # <<>>
                  THEN AfterLast(location, current_schedule, daily_end)
                  ELSE <<>>
    IN IF end_time > LatestEnd(location, daily_end) THEN <<>>
       ELSE IF scanned # <<>> THEN scanned
       ELSE IF fitted # <<>> THEN fitted
       ELSE IF current_schedule = <<>> /\ end_time <= LatestEnd(location, daily_end)
            THEN <<create_schedule_entry(location, start_time, end_time)>>
       ELSE <<>>

----------------------------------------------------------------------------
(* schedule_cluster_with_priorities and calculate_score *)

\* geopy's geodesic(a, b).kilometers on the model's grid
geodesic(a, b) == Abs(a[1] - b[1]) + Abs(a[2] - b[2])

\* proximity + 1 / max(hours until closing, 0.1), as the fraction num/den:
\* with m minutes until closing, max(m/60, 0.1) = max(m, 6)/60
calculate_score(location, last_location, current_time) ==
    LET proximity_score == geodesic(last_location.coordinates, location.coordinates)
        closing_time == strptime(location.closing_hours)
        flex == Max2(closing_time - current_time, 6)
    IN [num |-> proximity_score * flex + 60, den |-> flex]

FracLess(a, b) == a.num * b.den < b.num * a.den

\* min(cluster, key=opening time): position of the first minimal element
EarliestOpening(cluster) ==
    CHOOSE i \in 1..Len(cluster) :
        /\ \A j \in 1..Len(cluster) :
              strptime(cluster[i].opening_hours) <= strptime(cluster[j].opening_hours)
        /\ \A j \in 1..(i - 1) :
              strptime(cluster[i].opening_hours) < strptime(cluster[j].opening_hours)

\* min(cluster, key=calculate_score): position of the first minimal element
BestScored(cluster, last_location, current_time) ==
    CHOOSE i \in 1..Len(cluster) :
        /\ \A j \in 1..Len(cluster) :
              ~FracLess(calculate_score(cluster[j], last_location, current_time),
                        calculate_score(cluster[i], last_location, current_time))
        /\ \A j \in 1..(i - 1) :
              FracLess(calculate_score(cluster[i], last_location, current_time),
                       calculate_score(cluster[j], last_location, current_time))

\* ListRemove as cluster.pop(0): drops the head, whatever was selected
ListRemoveHead(cluster, x) == Tail(cluster)

\* cluster.remove(next_location): drops the first element equal to it
ListRemove(cluster, x) ==
    RemoveAt(cluster, CHOOSE i \in 1..Len(cluster) :
                          cluster[i] = x /\ \A j \in 1..(i - 1) : cluster[j] # x)

\* the while loop (lines 122-143) from the state <<cluster, schedule,
\* unvisitable, current_time>> to its end
RECURSIVE GreedyLoop(_, _, _, _, _, _)
GreedyLoop(cluster, schedule, unvisitable, current_time, daily_start, daily_end) ==
    IF cluster = <<>>
    THEN [schedule |-> schedule, unvisitable |-> unvisitable, cluster |-> cluster]
    ELSE
        LET first == schedule = <<>>
            last_location == schedule[Len(schedule)]
            next_location ==
                IF first THEN cluster[EarliestOpening(cluster)]
                ELSE cluster[BestScored(cluster, last_location, current_time)]
            rest == ListRemove(cluster, next_location)
            reason ==
                IF first THEN <<"earliest opening">>
                ELSE <<"proximity",
                       geodesic(last_location.coordinates, next_location.coordinates)>>
            result == schedule_single_location(next_location, schedule,
                                               daily_start, daily_end)
        IN IF result # <<>>
           THEN GreedyLoop(rest,
                           Append(schedule, result[1] @@ [reason |-> reason]),
                           unvisitable,
                           strptime(result[1].end_time),
                           daily_start, daily_end)
           ELSE GreedyLoop(rest, schedule, Append(unvisitable, next_location),
                           current_time, daily_start, daily_end)

\* lines 145-151: the distance to the next entry, <<>> ("N/A") on the last
AnnotateProximity(schedule) ==
    [i \in 1..Len(schedule) |->
        schedule[i] @@
        [proximity_to_next |->
            IF i < Len(schedule)
            THEN <<geodesic(schedule[i].coordinates, schedule[i + 1].coordinates)>>
            ELSE <<>>]]

schedule_cluster_with_priorities(cluster, daily_start, daily_end) ==
    LET looped == GreedyLoop(cluster, <<>>, <<>>, strptime(daily_start),
                             daily_start, daily_end)
    IN [schedule |-> AnnotateProximity(looped.schedule),
        unvisitable |-> looped.unvisitable]

----------------------------------------------------------------------------
(* iterative_schedule_cluster, one pass of its for loop *)

\* the locals before the first pass; best_score <<>> is float("inf"), a
\* best_schedule or best_unvisitable <<>> is None, <<list>> is a list
NewSearch ==
    [attempts |-> 0, unvisitable_count |-> 0, best_score |-> <<>>,
     best_schedule |-> <<>>, best_unvisitable |-> <<>>]

\* lines 193-201 on a copy cluster[:] of the group's list
SearchPass(s, cluster, daily_start, daily_end) ==
    LET result == schedule_cluster_with_priorities(cluster, daily_start, daily_end)
        unvisitable_count == Len(result.unvisitable)
        schedule_length == Len(result.schedule)
        score == unvisitable_count * 1000 - schedule_length
    IN IF s.best_score = <<>> \/ score < s.best_score[1]
       THEN [attempts |-> s.attempts + 1, unvisitable_count |-> unvisitable_count,
             best_score |-> <<score>>,
             best_schedule |-> <<result.schedule>>,
             best_unvisitable |-> <<result.unvisitable>>]
       ELSE [s EXCEPT !.attempts = s.attempts + 1,
                      !.unvisitable_count = unvisitable_count]

\* a pass on this list raises ValueError: line 120 parses daily_start, the
\* first round of the while loop parses every opening time of the list (line
\* 125), and every location of the list is selected and handed to
\* schedule_single_location, which parses the daily end and the location's
\* closing time (lines 49-52)
PassRaises(cluster, daily_start, daily_end) ==
    \/ ~Parses(daily_start)
    \/ /\ cluster # <<>>
       /\ \/ ~Parses(daily_end)
          \/ \E i \in 1..Len(cluster) :
                ~Parses(cluster[i].opening_hours) \/ ~Parses(cluster[i].closing_hours)

\* SearchOver without the break of lines 204-205
SearchOverNoBreak(s) == s.attempts >= MaxAttempts

\* lines 204-205 and the end of range(max_iterations): the loop is over
\* after a pass without unvisitable locations or after the last pass
SearchOver(s) == s.unvisitable_count = 0 \/ s.attempts >= MaxAttempts

\* TaskAfterPass with the return inside the for loop
TaskAfterPassReturnInLoop(s) == "done"

\* lines 192 and 207: the task goes round the loop again or returns
TaskAfterPass(s) == IF SearchOver(s) THEN "done" ELSE "running"

\* the list handed to schedule_cluster_with_priorities once its while loop
\* (lines 122-143) has removed every location from it
Drained(cluster, daily_start, daily_end) ==
    GreedyLoop(cluster, <<>>, <<>>, strptime(daily_start),
               daily_start, daily_end).cluster

\* ClusterAfterPass when the pass is handed the caller's list itself
ClusterAfterPassInPlace(cluster, daily_start, daily_end) ==
    Drained(cluster, daily_start, daily_end)

\* line 193: the pass is handed cluster[:], a new list, and drains that one;
\* the list the task was given holds what it held
ClusterAfterPass(cluster, daily_start, daily_end) ==
    cluster

\* what one pass was handed and what it produced (lines 193-196)
PassRecord(cluster, daily_start, daily_end) ==
    LET result == schedule_cluster_with_priorities(cluster, daily_start, daily_end)
    IN [given |-> cluster,
        schedule |-> result.schedule,
        unvisitable |-> result.unvisitable,
        score |-> Len(result.unvisitable) * 1000 - Len(result.schedule)]

----------------------------------------------------------------------------
(* handle_unvisitable *)

\* list.sort(key=lambda x: x["start_time"]): stable, by the time string
RECURSIVE SortByStartTime(_)
SortByStartTime(schedule) ==
    IF schedule = <<>> THEN <<>>
    ELSE
        LET i == CHOOSE i \in 1..Len(schedule) :
                    /\ \A j \in 1..Len(schedule) :
                          ~StrLess(schedule[j].start_time, schedule[i].start_time)
                    /\ \A j \in 1..(i - 1) :
                          StrLess(schedule[i].start_time, schedule[j].start_time)
        IN <<schedule[i]>> \o SortByStartTime(RemoveAt(schedule, i))

\* InsertEntry without the sort
InsertEntryNoSort(schedule, entry) == Append(schedule, entry)

\* InsertEntry writing over the last entry instead of appending
InsertEntryOverLast(schedule, entry) ==
    IF schedule = <<>> THEN <<entry>>
    ELSE SortByStartTime([schedule EXCEPT ![Len(schedule)] = entry])

\* lines 25-26: append the entry and sort the list again
InsertEntry(schedule, entry) == SortByStartTime(Append(schedule, entry))

\* TryClusters without the break of line 28: the location is put into every
\* group that accepts it
RECURSIVE TryClustersNoBreak(_, _, _, _, _, _)
TryClustersNoBreak(location, clusters, cluster_id, k, daily_start, daily_end) ==
    IF cluster_id >= k THEN [clusters |-> clusters, fit |-> FALSE]
    ELSE
        LET result == schedule_single_location(location, clusters[cluster_id].schedule,
                                               daily_start, daily_end)
            inserted == [clusters EXCEPT ![cluster_id].schedule =
                            InsertEntry(clusters[cluster_id].schedule, result[1])]
        IN IF result # <<>>
           THEN [clusters |->
                    TryClustersNoBreak(location, inserted, cluster_id + 1, k,
                                       daily_start, daily_end).clusters,
                 fit |-> TRUE]
           ELSE TryClustersNoBreak(location, clusters, cluster_id + 1, k,
                                   daily_start, daily_end)

\* the inner for loop (lines 22-28) from group cluster_id on: the clusters
\* after it and whether the location fitted
RECURSIVE TryClusters(_, _, _, _, _, _)
TryClusters(location, clusters, cluster_id, k, daily_start, daily_end) ==
    IF cluster_id >= k THEN [clusters |-> clusters, fit |-> FALSE]
    ELSE
        LET result == schedule_single_location(location, clusters[cluster_id].schedule,
                                               daily_start, daily_end)
        IN IF result # <<>>
           THEN [clusters |->
                    [clusters EXCEPT ![cluster_id].schedule =
                        InsertEntry(clusters[cluster_id].schedule, result[1])],
                 fit |-> TRUE]
           ELSE TryClusters(location, clusters, cluster_id + 1, k,
                            daily_start, daily_end)

\* the outer for loop (lines 20-30) from location i on
RECURSIVE RescueLoop(_, _, _, _, _, _, _)
RescueLoop(locations, clusters, new_unvisitable, i, k, daily_start, daily_end) ==
    IF i > Len(locations)
    THEN [clusters |-> clusters, unvisitable |-> new_unvisitable]
    ELSE
        LET tried == TryClusters(locations[i], clusters, 0, k, daily_start, daily_end)
        IN RescueLoop(locations, tried.clusters,
                      IF tried.fit THEN new_unvisitable
                      ELSE Append(new_unvisitable, locations[i]),
                      i + 1, k, daily_start, daily_end)

handle_unvisitable(locations, clusters, k, daily_start, daily_end) ==
    RescueLoop(locations, clusters, <<>>, 1, k, daily_start, daily_end)

----------------------------------------------------------------------------
(* Fractions: the model's exact stand-in for the floats of the scores *)

RECURSIVE Gcd(_, _)
Gcd(a, b) == IF b = 0 THEN a ELSE Gcd(b, a % b)

\* num/den in lowest terms, den > 0
Frac(num, den) ==
    LET g == Gcd(Abs(num), den)
    IN IF g = 0 THEN [num |-> 0, den |-> 1]
       ELSE [num |-> num \div g, den |-> den \div g]

FracAdd(a, b) == Frac(a.num * b.den + b.num * a.den, a.den * b.den)

FracMul(a, b) == Frac(a.num * b.num, a.den * b.den)

FracSub(a, b) == FracAdd(a, [num |-> -b.num, den |-> b.den])

RECURSIVE FracSum(_)
FracSum(s) == IF s = <<>> THEN Frac(0, 1) ELSE FracAdd(Head(s), FracSum(Tail(s)))

----------------------------------------------------------------------------
(* The request's data: routes.py lines 33-38 and 47-50 *)

\* {loc.name: loc for loc in data.points}, as the list of its values in key
\* order: a name keeps the place of its first occurrence and the value of
\* its last
LocationsDict(points) ==
    LET firsts == {i \in 1..Len(points) :
                      \A j \in 1..(i - 1) : points[j].name # points[i].name}
        lastOf(i) == CHOOSE j \in 1..Len(points) :
                        /\ points[j].name = points[i].name
                        /\ \A l \in (j + 1)..Len(points) : points[l].name # points[i].name
        RECURSIVE Build(_)
        Build(i) ==
            IF i > Len(points) THEN <<>>
            ELSE (IF i \in firsts THEN <<points[lastOf(i)]>> ELSE <<>>) \o Build(i + 1)
    IN Build(1)

\* MinMaxScaler().fit_transform(coordinates): per column (x - min) / (max - min),
\* a constant column scaled by 1; each value is the fraction num/den
MinMaxScaler(coordinates) ==
    LET col(c) == {coordinates[i][c] : i \in 1..Len(coordinates)}
        lo(c) == CHOOSE x \in col(c) : \A y \in col(c) : x <= y
        hi(c) == CHOOSE x \in col(c) : \A y \in col(c) : x >= y
        scale(c) == IF hi(c) = lo(c) THEN 1 ELSE hi(c) - lo(c)
    IN [i \in 1..Len(coordinates) |->
           [c \in 1..2 |-> Frac(coordinates[i][c] - lo(c), scale(c))]]

\* MeanAxis0 with sum in place of mean
SumAxis0(rows) ==
    <<[c \in 1..2 |-> FracSum([i \in 1..Len(rows) |-> rows[i][c]])]>>

\* normalized_data.mean(axis=0).reshape(1, -1): one row, the column means
MeanAxis0(rows) ==
    <<[c \in 1..2 |->
          FracMul(FracSum([i \in 1..Len(rows) |-> rows[i][c]]), Frac(1, Len(rows)))]>>

\* ValidationError without the test against the number of points
ValidationErrorLowerOnly(num_clusters, n) ==
    IF num_clusters < 1 THEN "Number of clusters must be at least 1" ELSE ""

\* the input validation (lines 41-45): the detail of the HTTPException
\* raised, "" when the request passes
ValidationError(num_clusters, n) ==
    IF num_clusters < 1 THEN "Number of clusters must be at least 1"
    ELSE IF n < num_clusters THEN "Number of clusters cannot exceed number of points"
    ELSE ""

----------------------------------------------------------------------------
(* One clustering restart: cluster_and_evaluate *)

\* the number of members of each group, [np.sum(labels == i) for i in range(k)]
ClusterCounts(labels, k) ==
    [c \in 1..k |-> Cardinality({i \in 1..Len(labels) : labels[i] = c - 1})]

FracLeq(a, b) == a.num * b.den <= b.num * a.den

\* the labels tensorflow_kmeans can return.  Its initial centroids are the
\* first k rows of a random shuffle of the data.  With k = n every row is a
\* centroid and stays one, so a point's label is the lowest index of a
\* centroid equal to it (argmin takes the first minimum).  With k < n the
\* hundred float32 update steps are not computed; the labels are any
\* assignment to nearest centroids can give for points on one line (the
\* model's points share their longitude): points between two points of one
\* group are in that group, and two different points are never all in one
\* group, since a centroid is a weighted mean of its own group's points, all
\* weights being at least 0.01.
KMeansLabels(rows, k) ==
    LET n == Len(rows)
        between(i, j, l) == FracLeq(rows[i][1], rows[j][1])
                            /\ FracLeq(rows[j][1], rows[l][1])
    IN IF k = n
       THEN {[i \in 1..n |->
                 (CHOOSE j \in 1..k :
                     /\ rows[init[j]] = rows[i]
                     /\ \A l \in 1..(j - 1) : rows[init[l]] # rows[i]) - 1] :
             init \in {f \in [1..k -> 1..n] :
                          \A a, b \in 1..k : a # b => f[a] # f[b]}}
       ELSE {l \in [1..n -> 0..(k - 1)] :
                /\ \A i, j, m \in 1..n :
                      (between(i, j, m) /\ l[i] = l[m]) => l[j] = l[i]
                /\ (\E i, j \in 1..n : rows[i] # rows[j])
                      => \E i, j \in 1..n : l[i] # l[j]}

\* sklearn's check in silhouette_score: it raises ValueError unless
\* 2 <= number of labels <= n_samples - 1
SilhouetteDefined(labels) ==
    LET n_labels == Cardinality({labels[i] : i \in 1..Len(labels)})
    IN 2 <= n_labels /\ n_labels <= Len(labels) - 1

\* distance of two normalized rows of equal second coordinate
RowDistance(a, b) ==
    LET d == FracSub(a[1], b[1]) IN Frac(Abs(d.num), d.den)

\* sklearn.metrics.silhouette_score: the mean over the samples of
\* (b - a) / max(a, b), a the mean distance to the sample's own group, b the
\* least mean distance to another group; 0 for a group of one
compute_silhouette_score(rows, labels) ==
    LET n == Len(rows)
        members(c) == {j \in 1..n : labels[j] = c}
        RECURSIVE total(_, _)
        total(i, js) ==
            IF js = {} THEN Frac(0, 1)
            ELSE LET j == CHOOSE x \in js : TRUE
                 IN FracAdd(RowDistance(rows[i], rows[j]), total(i, js \ {j}))
        meanTo(i, js) == FracMul(total(i, js), Frac(1, Cardinality(js)))
        a(i) == meanTo(i, members(labels[i]) \ {i})
        others(i) == {labels[j] : j \in 1..n} \ {labels[i]}
        b(i) == LET c == CHOOSE c \in others(i) :
                            \A e \in others(i) :
                                FracLeq(meanTo(i, members(c)), meanTo(i, members(e)))
                IN meanTo(i, members(c))
        sample(i) ==
            IF Cardinality(members(labels[i])) = 1 THEN Frac(0, 1)
            ELSE LET m == IF FracLeq(a(i), b(i)) THEN b(i) ELSE a(i)
                     d == FracSub(b(i), a(i))
                 IN IF m.num = 0 THEN Frac(0, 1)
                    ELSE Frac(d.num * m.den, d.den * m.num)
    IN FracMul(FracSum([i \in 1..n |-> sample(i)]), Frac(1, n))

\* np.var(cluster_counts) / np.mean(cluster_counts):
\* var = (k * sum c^2 - n^2) / k^2 and mean = n / k
compute_cluster_balance_score(labels, num_clusters) ==
    LET counts == ClusterCounts(labels, num_clusters)
        n == SumSeq(counts)
        squares == SumSeq([c \in 1..num_clusters |-> counts[c] * counts[c]])
    IN Frac(num_clusters * squares - n * n, num_clusters * n)

\* what restart number run returns for the labels k-means gave it; the
\* centroid array is not computed, it is named by the run that made it
cluster_and_evaluate(run, rows, labels, num_clusters) ==
    [centroids |-> <<"centroids of run", run>>,
     labels |-> labels,
     silhouette |-> compute_silhouette_score(rows, labels),
     cluster_balance |-> compute_cluster_balance_score(labels, num_clusters)]

----------------------------------------------------------------------------
(* The selection loop of parallel_find_best_clusters (lines 198-210) *)

\* (0.7 * silhouette) + (0.3 * (1 - cluster_balance))
CompositeScore(r) ==
    FracAdd(FracMul(Frac(7, 10), r.silhouette),
            FracMul(Frac(3, 10), FracSub(Frac(1, 1), r.cluster_balance)))

\* Improves with >= in place of >
ImprovesOrTies(composite_score, best) ==
    best = <<>> \/ ~FracLess(composite_score, best[1])

\* composite_score > best_composite_score, best <<>> being float("-inf")
Improves(composite_score, best) ==
    best = <<>> \/ FracLess(best[1], composite_score)

\* GroupByLabel taking the labels for 1..k
GroupByLabelOneBased(locations, labels, num_clusters) ==
    [c \in 0..(num_clusters - 1) |->
        LET RECURSIVE Pick(_)
            Pick(i) ==
                IF i > Min2(Len(locations), Len(labels)) THEN <<>>
                ELSE (IF labels[i] = c + 1 THEN <<locations[i]>> ELSE <<>>)
                     \o Pick(i + 1)
        IN Pick(1)]

\* lines 208-210: {i: [] for i in range(k)}, then every location appended to
\* the list of its label, in the order of locations.keys()
GroupByLabel(locations, labels, num_clusters) ==
    [c \in 0..(num_clusters - 1) |->
        LET RECURSIVE Pick(_)
            Pick(i) ==
                IF i > Min2(Len(locations), Len(labels)) THEN <<>>
                ELSE (IF labels[i] = c THEN <<locations[i]>> ELSE <<>>) \o Pick(i + 1)
        IN Pick(1)]

\* the loop from result i on; best is <<>> before anything is selected and
\* <<index of the selected run>> after
RECURSIVE SelectFrom(_, _, _, _)
SelectFrom(rs, i, best, best_composite_score) ==
    IF i > Len(rs) THEN best
    ELSE IF Improves(CompositeScore(rs[i]), best_composite_score)
         THEN SelectFrom(rs, i + 1, <<i>>, <<CompositeScore(rs[i])>>)
         ELSE SelectFrom(rs, i + 1, best, best_composite_score)

----------------------------------------------------------------------------
(* The requests the model draws from *)

\* the time string of a whole hour
Hour(h) == strftime(timedelta(h))

\* location profiles: an all-day stop, one that closes after its first hour,
\* a late opener, one whose visit cannot fit its own hours, a long visit,
\* and one whose opening time is the string "25:00" (Location takes any str)
Profiles ==
    {[coordinates |-> <<0, 0>>, opening_hours |-> Hour(8),
      closing_hours |-> Hour(20), duration |-> 1],
     [coordinates |-> <<0, 0>>, opening_hours |-> Hour(8),
      closing_hours |-> Hour(9), duration |-> 1],
     [coordinates |-> <<1, 0>>, opening_hours |-> Hour(10),
      closing_hours |-> Hour(20), duration |-> 1],
     [coordinates |-> <<2, 0>>, opening_hours |-> Hour(18),
      closing_hours |-> Hour(19), duration |-> 2],
     [coordinates |-> <<2, 0>>, opening_hours |-> Hour(8),
      closing_hours |-> Hour(20), duration |-> 2],
     [coordinates |-> <<0, 0>>, opening_hours |-> <<2, 5, 0, 0>>,
      closing_hours |-> Hour(20), duration |-> 1]}

Names == <<"L1", "L2", "L3", "L4", "L5", "L6">>

\* a list of profiles as the request's points, named by position
Named(ps) == [i \in 1..Len(ps) |-> ps[i] @@ [name |-> Names[i]]]

ProfileLists == UNION {[1..n -> Profiles] : n \in 0..MaxLocs}

DailyWindows == {<<Hour(8), Hour(20)>>, <<Hour(9), Hour(12)>>}

Requests ==
    {[points |-> Named(ps), num_clusters |-> k,
      daily_start_time |-> w[1], daily_end_time |-> w[2]] :
        ps \in ProfileLists, k \in 0..(MaxLocs + 1), w \in DailyWindows}

----------------------------------------------------------------------------
(* cluster_data as a state machine *)

NoCall == [state |-> "none"]

Groups == 0..(data.num_clusters - 1)

Restarts == 1..NumRestarts

Running(tasks, ids) == Cardinality({t \in ids : tasks[t] = "running"})

Init ==
    /\ data \in Requests
    /\ pc = "received"
    /\ response = <<>>
    /\ normalized_data = <<>>
    /\ ctask = <<>>
    /\ results = <<>>
    /\ best_clusters = <<>>
    /\ best_labels = <<>>
    /\ best_centroids = <<>>
    /\ best_metrics = <<>>
    /\ stask = <<>>
    /\ search = <<>>
    /\ grouped_clusters = <<>>
    /\ unvisitable_locations = <<>>
    /\ final_unvisitable = <<>>
    /\ pre_rescue = <<>>
    /\ passes = <<>>
    /\ schedule_results = <<>>
    /\ call = NoCall

Coordinates == [i \in 1..Len(data.points) |-> data.points[i].coordinates]

\* line 81 up to the submissions: one task per group, none started
SubmitScheduling(clusters) ==
    /\ stask' = [g \in DOMAIN clusters |-> "queued"]
    /\ search' = [g \in DOMAIN clusters |-> NewSearch]
    /\ passes' = [g \in DOMAIN clusters |-> <<>>]

\* lines 41-45: the request is refused
Reject ==
    /\ pc = "received"
    /\ ValidationError(data.num_clusters, Len(Coordinates)) # ""
    /\ pc' = "rejected"
    /\ response' = [status_code |-> 400,
                    detail |-> ValidationError(data.num_clusters, Len(Coordinates))]
    /\ UNCHANGED <<data, normalized_data, ctask, results, best_clusters, best_labels,
                   best_centroids, best_metrics, stask, search, grouped_clusters,
                   unvisitable_locations, final_unvisitable, pre_rescue, call,
                   passes, schedule_results>>

\* lines 52-56 and 81: one group, no clustering
SingleCluster ==
    /\ pc = "received"
    /\ ValidationError(data.num_clusters, Len(Coordinates)) = ""
    /\ data.num_clusters = 1
    /\ normalized_data' = MinMaxScaler(Coordinates)
    /\ best_labels' = [i \in 1..Len(Coordinates) |-> 0]
    /\ best_centroids' = MeanAxis0(MinMaxScaler(Coordinates))
    /\ best_clusters' = [c \in {0} |-> LocationsDict(data.points)]
    /\ SubmitScheduling([c \in {0} |-> LocationsDict(data.points)])
    /\ pc' = "scheduling"
    /\ UNCHANGED <<data, response, ctask, results, best_metrics, grouped_clusters,
                   unvisitable_locations, final_unvisitable, pre_rescue, call,
                   schedule_results>>

\* lines 64-69 and 194-195: the restarts are handed to the pool
SubmitRestarts ==
    /\ pc = "received"
    /\ ValidationError(data.num_clusters, Len(Coordinates)) = ""
    /\ data.num_clusters # 1
    /\ normalized_data' = MinMaxScaler(Coordinates)
    /\ ctask' = [i \in Restarts |-> "queued"]
    /\ results' = [i \in Restarts |-> <<>>]
    /\ pc' = "clustering"
    /\ UNCHANGED <<data, response, best_clusters, best_labels, best_centroids,
                   best_metrics, stask, search, grouped_clusters,
                   unvisitable_locations, final_unvisitable, pre_rescue, call,
                   passes, schedule_results>>

\* a worker takes the next queued restart
StartRestart(i) ==
    /\ pc = "clustering"
    /\ ctask[i] = "queued"
    /\ \A j \in 1..(i - 1) : ctask[j] # "queued"
    /\ Running(ctask, Restarts) < ClusterWorkers
    /\ ctask' = [ctask EXCEPT ![i] = "running"]
    /\ UNCHANGED <<data, pc, response, normalized_data, results, best_clusters,
                   best_labels, best_centroids, best_metrics, stask, search,
                   grouped_clusters, unvisitable_locations, final_unvisitable,
                   pre_rescue, call,
                   passes, schedule_results>>

\* cluster_and_evaluate returns
RestartReturns(i) ==
    /\ pc = "clustering"
    /\ ctask[i] = "running"
    /\ \E labels \in KMeansLabels(normalized_data, data.num_clusters) :
          /\ SilhouetteDefined(labels)
          /\ results' = [results EXCEPT ![i] =
                <<cluster_and_evaluate(i, normalized_data, labels, data.num_clusters)>>]
    /\ ctask' = [ctask EXCEPT ![i] = "done"]
    /\ UNCHANGED <<data, pc, response, normalized_data, best_clusters, best_labels,
                   best_centroids, best_metrics, stask, search, grouped_clusters,
                   unvisitable_locations, final_unvisitable, pre_rescue, call,
                   passes, schedule_results>>

\* cluster_and_evaluate raises: silhouette_score refuses the labels
RestartRaises(i) ==
    /\ pc = "clustering"
    /\ ctask[i] = "running"
    /\ \E labels \in KMeansLabels(normalized_data, data.num_clusters) :
          ~SilhouetteDefined(labels)
    /\ ctask' = [ctask EXCEPT ![i] = "failed"]
    /\ UNCHANGED <<data, pc, response, normalized_data, results, best_clusters,
                   best_labels, best_centroids, best_metrics, stask, search,
                   grouped_clusters, unvisitable_locations, final_unvisitable,
                   pre_rescue, call,
                   passes, schedule_results>>

\* list(executor.map(...)) meets a restart that raised: the queued restarts
\* are cancelled, the pool is left once nothing runs, cluster_data raises
ClusteringFailed ==
    /\ pc = "clustering"
    /\ \E i \in Restarts :
          ctask[i] = "failed" /\ \A j \in 1..(i - 1) : ctask[j] = "done"
    /\ Running(ctask, Restarts) = 0
    /\ ctask' = [i \in Restarts |->
                    IF ctask[i] = "queued" THEN "cancelled" ELSE ctask[i]]
    /\ pc' = "failed"
    /\ response' = [status_code |-> 500, detail |-> "ValueError"]
    /\ UNCHANGED <<data, normalized_data, results, best_clusters, best_labels,
                   best_centroids, best_metrics, stask, search, grouped_clusters,
                   unvisitable_locations, final_unvisitable, pre_rescue, call,
                   passes, schedule_results>>

\* lines 198-212 and 81: every restart has returned, the best is selected
\* and its groups are handed to the scheduling pool; with nothing selected
\* best_clusters is None and parallel_schedule_clusters raises on it
SelectBest ==
    /\ pc = "clustering"
    /\ \A i \in Restarts : ctask[i] = "done"
    /\ LET rs == [i \in Restarts |-> results[i][1]]
           best == SelectFrom(rs, 1, <<>>, <<>>)
       IN IF best = <<>>
          THEN /\ pc' = "failed"
               /\ response' = [status_code |-> 500, detail |-> "AttributeError"]
               /\ UNCHANGED <<best_clusters, best_labels, best_centroids,
                              best_metrics, stask, search, passes>>
          ELSE LET r == rs[best[1]]
                   clusters == GroupByLabel(LocationsDict(data.points), r.labels,
                                            data.num_clusters)
               IN /\ best_labels' = r.labels
                  /\ best_centroids' = r.centroids
                  /\ best_metrics' = [silhouette_score |-> r.silhouette,
                                      cluster_balance_score |-> r.cluster_balance]
                  /\ best_clusters' = clusters
                  /\ SubmitScheduling(clusters)
                  /\ pc' = "scheduling"
                  /\ UNCHANGED response
    /\ UNCHANGED <<data, normalized_data, ctask, results, grouped_clusters,
                   unvisitable_locations, final_unvisitable, pre_rescue, call,
                   schedule_results>>

\* a worker takes the next queued group
StartScheduling(g) ==
    /\ pc = "scheduling"
    /\ stask[g] = "queued"
    /\ \A h \in 0..(g - 1) : stask[h] # "queued"
    /\ Running(stask, Groups) < ScheduleWorkers
    /\ stask' = [stask EXCEPT ![g] = "running"]
    /\ UNCHANGED <<data, pc, response, normalized_data, ctask, results,
                   best_clusters, best_labels, best_centroids, best_metrics, search,
                   grouped_clusters, unvisitable_locations, final_unvisitable,
                   pre_rescue, call,
                   passes, schedule_results>>

\* one pass of the for loop of iterative_schedule_cluster for group g
SearchAttempt(g) ==
    /\ pc = "scheduling"
    /\ stask[g] = "running"
    /\ ~PassRaises(best_clusters[g], data.daily_start_time, data.daily_end_time)
    /\ LET s == SearchPass(search[g], best_clusters[g], data.daily_start_time,
                           data.daily_end_time)
       IN /\ search' = [search EXCEPT ![g] = s]
          /\ stask' = [stask EXCEPT ![g] = TaskAfterPass(s)]
    /\ passes' = [passes EXCEPT ![g] =
                     Append(@, PassRecord(best_clusters[g], data.daily_start_time,
                                          data.daily_end_time))]
    /\ best_clusters' = [best_clusters EXCEPT ![g] =
                            ClusterAfterPass(@, data.daily_start_time,
                                             data.daily_end_time)]
    /\ UNCHANGED <<data, pc, response, normalized_data, ctask, results,
                   best_labels, best_centroids, best_metrics,
                   grouped_clusters, unvisitable_locations, final_unvisitable,
                   pre_rescue, call, schedule_results>>

\* the pass of group g raises: strptime refuses one of its time strings
SchedulingRaises(g) ==
    /\ pc = "scheduling"
    /\ stask[g] = "running"
    /\ PassRaises(best_clusters[g], data.daily_start_time, data.daily_end_time)
    /\ stask' = [stask EXCEPT ![g] = "failed"]
    /\ UNCHANGED <<data, pc, response, normalized_data, ctask, results,
                   best_clusters, best_labels, best_centroids, best_metrics, search,
                   grouped_clusters, unvisitable_locations, final_unvisitable,
                   pre_rescue, call, passes, schedule_results>>

\* the first group, in id order, whose task raised
FirstFailed == CHOOSE g \in Groups :
                   stask[g] = "failed" /\ \A h \in 0..(g - 1) : stask[h] # "failed"

\* scheduling.py lines 171-177: future.result() of the first task that
\* raised re-raises in the loop, which has stored the results of the groups
\* before it and stores no other; the with block is left once every task
\* has ended (queued tasks still run), cluster_data raises
SchedulingFailed ==
    /\ pc = "scheduling"
    /\ \E g \in Groups : stask[g] = "failed"
    /\ \A g \in Groups : stask[g] \in {"done", "failed"}
    /\ schedule_results' =
          [g \in 0..(FirstFailed - 1) |->
              [schedule |-> search[g].best_schedule[1],
               unvisitable |-> search[g].best_unvisitable[1]]]
    /\ pc' = "failed"
    /\ response' = [status_code |-> 500, detail |-> "ValueError"]
    /\ UNCHANGED <<data, normalized_data, ctask, results, best_clusters,
                   best_labels, best_centroids, best_metrics, stask, search,
                   grouped_clusters, unvisitable_locations, final_unvisitable,
                   pre_rescue, call, passes>>

\* lines 84-86: the groups' leftovers, in group order
RECURSIVE Leftovers(_, _, _)
Leftovers(clusters, g, k) ==
    IF g >= k THEN <<>>
    ELSE clusters[g].unvisitable \o Leftovers(clusters, g + 1, k)

\* lines 120-145
Response(clusters, unvisitable) ==
    [grouped_clusters |->
        [g \in DOMAIN clusters |->
            [cluster |-> g,
             schedule |-> [i \in 1..Len(clusters[g].schedule) |->
                 [name |-> clusters[g].schedule[i].name,
                  start_time |-> clusters[g].schedule[i].start_time,
                  end_time |-> clusters[g].schedule[i].end_time]]]],
     final_unvisitable |->
        [i \in 1..Len(unvisitable) |->
            [name |-> unvisitable[i].name,
             reason |-> "Time constraints prevent scheduling"]]]

\* scheduling.py lines 176-177 and routes.py lines 84-147: every group's
\* result is in, the leftovers go through handle_unvisitable, the response
\* is returned
Rescue ==
    /\ pc = "scheduling"
    /\ \A g \in Groups : stask[g] = "done"
    /\ LET collected == [g \in Groups |->
                            [schedule |-> search[g].best_schedule[1],
                             unvisitable |-> search[g].best_unvisitable[1]]]
           leftovers == Leftovers(collected, 0, data.num_clusters)
           adjusted == handle_unvisitable(leftovers, collected, data.num_clusters,
                                          data.daily_start_time, data.daily_end_time)
       IN /\ schedule_results' = collected
          /\ pre_rescue' = collected
          /\ unvisitable_locations' = leftovers
          /\ grouped_clusters' = adjusted.clusters
          /\ final_unvisitable' = adjusted.unvisitable
          /\ response' = Response(adjusted.clusters, adjusted.unvisitable)
    /\ pc' = "done"
    /\ UNCHANGED <<data, normalized_data, ctask, results, best_clusters,
                   best_labels, best_centroids, best_metrics, stask, search, call,
                   passes>>

Next ==
    \/ Reject
    \/ SingleCluster
    \/ SubmitRestarts
    \/ \E i \in Restarts : StartRestart(i)
    \/ \E i \in Restarts : RestartReturns(i)
    \/ \E i \in Restarts : RestartRaises(i)
    \/ ClusteringFailed
    \/ SelectBest
    \/ \E g \in Groups : StartScheduling(g)
    \/ \E g \in Groups : SearchAttempt(g)
    \/ \E g \in Groups : SchedulingRaises(g)
    \/ SchedulingFailed
    \/ Rescue

Spec == Init /\ [][Next]_vars

----------------------------------------------------------------------------
(* schedule_single_location applied on its own to one location and one    *)
(* ordered, non-overlapping schedule                                       *)

PlaceLocations ==
    {[name |-> "X", coordinates |-> <<0, 0>>, opening_hours |-> Hour(o),
      closing_hours |-> Hour(c), duration |-> d] :
        o \in {8, 10}, c \in {11, 20}, d \in {1, 2}}

\* the whole hours an event of the schedules below starts or ends at
EventHours == 8..12

Event(i, from, to) ==
    [name |-> Names[i], coordinates |-> <<1, 0>>,
     start_time |-> Hour(from), end_time |-> Hour(to)]

\* the schedules of up to MaxEvents events inside the daily window, each
\* event ending no later than the next starts
OrderedSchedules(daily_start, daily_end) ==
    LET inside(h) == strptime(daily_start) <= timedelta(h)
                     /\ timedelta(h) <= strptime(daily_end)
        hours == {h \in EventHours : inside(h)}
        bounds(n) == {b \in [1..(2 * n) -> hours] :
                         /\ \A i \in 1..n : b[2 * i - 1] < b[2 * i]
                         /\ \A i \in 1..(n - 1) : b[2 * i] <= b[2 * i + 1]}
    IN UNION {{[i \in 1..n |-> Event(i, b[2 * i - 1], b[2 * i])] : b \in bounds(n)} :
              n \in 0..MaxEvents}

CallInputs ==
    UNION {{[state |-> "ready", location |-> l, current_schedule |-> sch,
             given |-> sch, daily_start |-> w[1], daily_end |-> w[2], result |-> <<>>] :
              l \in PlaceLocations, sch \in OrderedSchedules(w[1], w[2])} :
           w \in DailyWindows}

InitPlace ==
    /\ call \in CallInputs
    /\ pc = "call"
    /\ data = [points |-> <<>>, num_clusters |-> 0,
               daily_start_time |-> call.daily_start,
               daily_end_time |-> call.daily_end]
    /\ response = <<>>
    /\ normalized_data = <<>>
    /\ ctask = <<>>
    /\ results = <<>>
    /\ best_clusters = <<>>
    /\ best_labels = <<>>
    /\ best_centroids = <<>>
    /\ best_metrics = <<>>
    /\ stask = <<>>
    /\ search = <<>>
    /\ grouped_clusters = <<>>
    /\ unvisitable_locations = <<>>
    /\ final_unvisitable = <<>>
    /\ pre_rescue = <<>>
    /\ passes = <<>>
    /\ schedule_results = <<>>

\* the call returns; the function reads current_schedule and assigns nothing
\* to it
ApplyPlacement ==
    /\ pc = "call"
    /\ call.state = "ready"
    /\ call' = [call EXCEPT
                  !.state = "returned",
                  !.result = schedule_single_location(call.location,
                                 call.current_schedule, call.daily_start,
                                 call.daily_end)]
    /\ UNCHANGED <<data, pc, response, normalized_data, ctask, results,
                   best_clusters, best_labels, best_centroids, best_metrics, stask,
                   search, grouped_clusters, unvisitable_locations,
                   final_unvisitable, pre_rescue,
                   passes, schedule_results>>

NextPlace == ApplyPlacement

SpecPlace == InitPlace /\ [][NextPlace]_vars

----------------------------------------------------------------------------
(* Properties *)

\* the request's location of that name
LocationNamed(name) ==
    CHOOSE l \in {data.points[i] : i \in 1..Len(data.points)} : l.name = name

\* every schedule the run holds: each group's best attempt and, once
\* handle_unvisitable has returned, each group's final schedule
HeldSchedules ==
    {search[g].best_schedule[1] :
        g \in {h \in DOMAIN search : search[h].best_schedule # <<>>}}
    \cup {grouped_clusters[g].schedule : g \in DOMAIN grouped_clusters}

EntryInWindow(e, location, daily_start, daily_end) ==
    /\ strptime(e.start_time) >=
           Max2(strptime(daily_start), strptime(location.opening_hours))
    /\ strptime(e.end_time) <=
           Min2(strptime(daily_end), strptime(location.closing_hours))

\* C1: every entry of every schedule, after GroupScheduler and after
\* RescuePass, starts no earlier than max(daily_start, opening) of its
\* location and ends no later than min(daily_end, closing)
C1_WindowContainment ==
    \A sch \in HeldSchedules : \A i \in 1..Len(sch) :
        EntryInWindow(sch[i], LocationNamed(sch[i].name),
                      data.daily_start_time, data.daily_end_time)

OrderedNonOverlapping(sch) ==
    \A i \in 1..(Len(sch) - 1) :
        /\ strptime(sch[i].start_time) <= strptime(sch[i + 1].start_time)
        /\ strptime(sch[i].end_time) <= strptime(sch[i + 1].start_time)

RECURSIVE TotalScheduled(_, _, _)
TotalScheduled(clusters, g, k) ==
    IF g >= k THEN 0
    ELSE Len(clusters[g].schedule) + TotalScheduled(clusters, g + 1, k)

Elems(s) == {s[i] : i \in 1..Len(s)}

\* C3: once handle_unvisitable has returned, the groups hold at least as
\* many entries as before, every entry a group held before is still in that
\* group's schedule, and every location still unvisitable was unvisitable in
\* some group before
C3_RescueMonotonic ==
    pc = "done" =>
        /\ TotalScheduled(grouped_clusters, 0, data.num_clusters)
              >= TotalScheduled(pre_rescue, 0, data.num_clusters)
        /\ \A g \in DOMAIN pre_rescue :
              Elems(pre_rescue[g].schedule) \subseteq Elems(grouped_clusters[g].schedule)
        /\ Elems(final_unvisitable)
              \subseteq UNION {Elems(pre_rescue[g].unvisitable) : g \in DOMAIN pre_rescue}

\* C3's case: the pass placed one leftover and gave up on another
C3_Witness ==
    /\ pc = "done"
    /\ TotalScheduled(grouped_clusters, 0, data.num_clusters)
          > TotalScheduled(pre_rescue, 0, data.num_clusters)
    /\ final_unvisitable # <<>>
    /\ \E g \in DOMAIN pre_rescue : pre_rescue[g].schedule # <<>>

Occurrences(x, g) ==
    Cardinality({i \in 1..Len(best_clusters[g]) : best_clusters[g][i] = x})

\* C4: in the grouping handed to scheduling the group ids are 0..k-1, every
\* input location is in exactly one group, once, and the groups hold nothing
\* else
C4_Partition ==
    pc \in {"scheduling", "done"} =>
        /\ DOMAIN best_clusters = 0..(data.num_clusters - 1)
        /\ \A i \in 1..Len(data.points) :
              SumSeq([c \in 1..data.num_clusters |->
                         Occurrences(data.points[i], c - 1)]) = 1
        /\ SumSeq([c \in 1..data.num_clusters |-> Len(best_clusters[c - 1])])
              = Len(data.points)

\* C4's case: a clustering search whose best run filled two groups
C4_Witness ==
    /\ pc = "scheduling"
    /\ data.num_clusters = 2
    /\ \A g \in DOMAIN best_clusters : best_clusters[g] # <<>>

\* the gaps of a schedule, 0 before the first event, i between events i and
\* i+1, Len after the last, and the start a location is given in each
GapStart(location, sch, g, daily_start) ==
    IF g = 0 THEN Max2(strptime(daily_start), strptime(location.opening_hours))
    ELSE strptime(sch[g].end_time)

GapFits(location, sch, g, daily_start, daily_end) ==
    LET finish == GapStart(location, sch, g, daily_start) + 60 * location.duration
    IN IF g < Len(sch) THEN finish <= strptime(sch[g + 1].start_time)
       ELSE finish <= Min2(strptime(daily_end), strptime(location.closing_hours))

\* what the placement procedure is to return: nothing for a location that
\* fails the step-2 bound; else the step-1 interval for an empty schedule;
\* else the interval of the leftmost gap that fits, nothing when none fits
FirstFit(location, sch, daily_start, daily_end) ==
    LET first == Max2(strptime(daily_start), strptime(location.opening_hours))
        fitting == {g \in 0..Len(sch) :
                       GapFits(location, sch, g, daily_start, daily_end)}
        gap == CHOOSE g \in fitting : \A h \in fitting : g <= h
        at == GapStart(location, sch, gap, daily_start)
    IN IF first + 60 * location.duration >
              Min2(strptime(daily_end), strptime(location.closing_hours))
       THEN <<>>
       ELSE IF fitting = {} THEN <<>>
       ELSE <<[name |-> location.name, coordinates |-> location.coordinates,
               start_time |-> Hour(at \div 60),
               end_time |-> Hour(at \div 60 + location.duration)]>>

\* C5: schedule_single_location returns the placement of the leftmost gap
\* that fits (before the first entry, else the first gap between entries,
\* else after the last entry), returns nothing exactly when the location
\* fails the step-2 bound or no gap fits, and leaves the schedule as given
C5_FirstFit ==
    call.state = "returned" =>
        /\ call.result = FirstFit(call.location, call.current_schedule,
                                  call.daily_start, call.daily_end)
        /\ call.current_schedule = call.given

\* C5's case: the location went into the gap between two events although it
\* would also fit after the last one
C5_Witness ==
    /\ call.state = "returned"
    /\ Len(call.current_schedule) = 2
    /\ call.result # <<>>
    /\ call.result[1].start_time = call.current_schedule[1].end_time
    /\ GapFits(call.location, call.current_schedule, 2, call.daily_start,
               call.daily_end)

InvalidConfiguration ==
    data.num_clusters < 1 \/ data.num_clusters > Len(data.points)

\* C6: a request with fewer than one group or more groups than locations
\* is refused with the 400 error; no clustering or scheduling task is ever
\* submitted for it and it gets no schedule and no unvisitable list
C6_RejectedBeforeWork ==
    InvalidConfiguration =>
        /\ pc \in {"received", "rejected"}
        /\ ctask = <<>> /\ stask = <<>>
        /\ grouped_clusters = <<>> /\ final_unvisitable = <<>>
        /\ pc = "rejected" =>
              /\ DOMAIN response = {"status_code", "detail"}
              /\ response.status_code = 400

\* C6's case: more groups than locations were asked for and refused
C6_Witness ==
    /\ pc = "rejected"
    /\ Len(data.points) >= 1
    /\ data.num_clusters > Len(data.points)

DistinctPoints == {data.points[i].coordinates : i \in 1..Len(data.points)}

\* C7: a request for more groups than there are distinct points never gets
\* a grouping
C7_DistinctPointsEnforced ==
    data.num_clusters > Cardinality(DistinctPoints) =>
        pc \notin {"scheduling", "done"}

\* every time of day of the request is a string strptime accepts
WellFormedTimes ==
    /\ Parses(data.daily_start_time)
    /\ Parses(data.daily_end_time)
    /\ \A i \in 1..Len(data.points) :
          Parses(data.points[i].opening_hours) /\ Parses(data.points[i].closing_hours)

\* C8: a request of well-formed times that passes the validation, with at
\* least as many distinct points as groups, never ends in a fault
C8_NoFault ==
    (/\ ~InvalidConfiguration
     /\ data.num_clusters <= Cardinality(DistinctPoints)
     /\ WellFormedTimes)
        => pc # "failed"

\* the columns of the raw coordinates, for the scaling stated on its own
ColumnMin(c) ==
    CHOOSE x \in {p[c] : p \in DistinctPoints} :
        \A y \in {p[c] : p \in DistinctPoints} : x <= y

ColumnMax(c) ==
    CHOOSE x \in {p[c] : p \in DistinctPoints} :
        \A y \in {p[c] : p \in DistinctPoints} : x >= y

ColumnRange(c) ==
    IF ColumnMax(c) = ColumnMin(c) THEN 1 ELSE ColumnMax(c) - ColumnMin(c)

\* C9: a request for one group starts no restart and scores nothing, and
\* hands to scheduling the single group 0 holding all the locations in
\* order, with every label 0 and the centroid the column means of the
\* scaled points: centroid * n * range = sum of (x - min)
C9_SingleGroup ==
    (data.num_clusters = 1 /\ Len(data.points) >= 1) =>
        /\ ctask = <<>> /\ results = <<>> /\ best_metrics = <<>>
        /\ pc \in {"scheduling", "done"} =>
              /\ DOMAIN best_clusters = {0}
              /\ best_clusters[0] = data.points
              /\ best_labels = [i \in 1..Len(data.points) |-> 0]
              /\ Len(best_centroids) = 1
              /\ \A c \in 1..2 :
                    best_centroids[1][c].num * Len(data.points) * ColumnRange(c)
                    = best_centroids[1][c].den
                      * SumSeq([i \in 1..Len(data.points) |->
                                   data.points[i].coordinates[c] - ColumnMin(c)])

\* C9's case: three locations at three different points in one group
C9_Witness ==
    /\ pc = "scheduling"
    /\ data.num_clusters = 1
    /\ Len(data.points) = 3
    /\ Cardinality(DistinctPoints) = 3

\* 0.7 * silhouette + 0.3 * (1 - balance) of restart i, times 10
TenfoldComposite(i) ==
    LET r == results[i][1]
    IN [num |-> 7 * r.silhouette.num * r.cluster_balance.den
                + 3 * (r.cluster_balance.den - r.cluster_balance.num)
                    * r.silhouette.den,
        den |-> r.silhouette.den * r.cluster_balance.den]

Below(a, b) == a.num * b.den < b.num * a.den

BestPass(ps) ==
    CHOOSE a \in 1..Len(ps) :
        /\ \A b \in 1..Len(ps) : ps[a].score <= ps[b].score
        /\ \A b \in 1..(a - 1) : ps[b].score > ps[a].score

\* C11: a group's search runs at most max_iterations passes, none after a
\* pass that left no location unvisitable, counts the passes it ran, and
\* holds as best schedule and best unvisitable list the pair of one pass,
\* the first of the passes whose score unvisitable*1000 - scheduled is lowest
C11_ScheduleSearch ==
    \A g \in DOMAIN passes :
        /\ Len(passes[g]) <= MaxAttempts
        /\ search[g].attempts = Len(passes[g])
        /\ \A a \in 1..(Len(passes[g]) - 1) : passes[g][a].unvisitable # <<>>
        /\ stask[g] = "done" =>
              \/ Len(passes[g]) = MaxAttempts
              \/ passes[g][Len(passes[g])].unvisitable = <<>>
        /\ passes[g] # <<>> =>
              LET best == passes[g][BestPass(passes[g])]
              IN /\ search[g].best_score = <<best.score>>
                 /\ search[g].best_schedule = <<best.schedule>>
                 /\ search[g].best_unvisitable = <<best.unvisitable>>

\* C11's case: one group's search stopped after a first pass that placed
\* every location while another group's search ran every pass allowed
C11_Witness ==
    /\ pc = "scheduling"
    /\ \E g, h \in DOMAIN passes :
          /\ stask[g] = "done" /\ stask[h] = "done"
          /\ Len(passes[g]) = 1 /\ passes[g][1].schedule # <<>>
          /\ Len(passes[h]) = MaxAttempts
          /\ passes[h][MaxAttempts].unvisitable # <<>>
          /\ passes[h][MaxAttempts].schedule # <<>>

\* the search of group g has run its last pass
AttemptsCompleted(g) ==
    /\ passes[g] # <<>>
    /\ \/ Len(passes[g]) = MaxAttempts
       \/ passes[g][Len(passes[g])].unvisitable = <<>>

\* C12: in every interleaving of the pool's tasks a best run is selected
\* and groups are assigned only when all the restarts have returned, and
\* handle_unvisitable has run only when every group's search has run its
\* last pass and no scheduling task is queued or running
C12_PhaseBarriers ==
    /\ (data.num_clusters # 1
           /\ (pc \in {"scheduling", "done"} \/ best_clusters # <<>>
                  \/ best_labels # <<>>)) =>
          \A i \in Restarts : ctask[i] = "done" /\ results[i] # <<>>
    /\ (pc = "done" \/ pre_rescue # <<>> \/ grouped_clusters # <<>>) =>
          /\ \A g \in Groups : stask[g] = "done" /\ AttemptsCompleted(g)
          /\ Running(stask, Groups) = 0

\* C12's case: two groups from a clustering search, one of them searched
\* MaxAttempts times, and handle_unvisitable has returned
C12_Witness ==
    /\ pc = "done"
    /\ data.num_clusters = 2
    /\ \A i \in Restarts : ctask[i] = "done"
    /\ \E g \in Groups : Len(passes[g]) = MaxAttempts /\ MaxAttempts > 1
    /\ \A g \in Groups : best_clusters[g] # <<>>

\* the result group g's task returned
TaskResult(g) ==
    [schedule |-> search[g].best_schedule[1],
     unvisitable |-> search[g].best_unvisitable[1]]

\* C13: when a task of a phase has failed the request ends in that failure,
\* not in a result with a default in the failed task's place, and the result
\* of every group whose task returned is in the results collected
C13_FailureIsolation ==
    /\ ((\E i \in DOMAIN ctask : ctask[i] = "failed")
           \/ (\E g \in DOMAIN stask : stask[g] = "failed")) =>
          /\ pc # "done"
          /\ pc = "failed" => response.status_code = 500
    /\ pc = "failed" =>
          \A g \in DOMAIN stask :
              stask[g] = "done" =>
                  /\ g \in DOMAIN schedule_results
                  /\ schedule_results[g] = TaskResult(g)

\* the request's locations of label g, in request order
RECURSIVE LabelledFrom(_, _)
LabelledFrom(g, i) ==
    IF i > Len(data.points) THEN <<>>
    ELSE (IF best_labels[i] = g THEN <<data.points[i]>> ELSE <<>>)
         \o LabelledFrom(g, i + 1)

\* what group g's task may touch: its list, its locals, its passes
GroupState(g) == <<best_clusters[g], search[g], passes[g], stask[g]>>

\* the lists of the groups are the ones assigned, and every pass was handed
\* the whole list of its group and placed or gave up locations of that list
\* only
ListsKept ==
    \A g \in DOMAIN passes :
        /\ best_clusters[g] = LabelledFrom(g, 1)
        /\ \A a \in 1..Len(passes[g]) :
              /\ passes[g][a].given = LabelledFrom(g, 1)
              /\ \A e \in Elems(passes[g][a].schedule) :
                    \E l \in Elems(LabelledFrom(g, 1)) : l.name = e.name
              /\ Elems(passes[g][a].unvisitable) \subseteq Elems(LabelledFrom(g, 1))

\* C14: every pass of a group's search starts from the group's whole list,
\* the list handed to the search holds the same locations after every pass,
\* and a step of one group's task leaves the list, the locals, the schedule
\* and the unvisitable list of every other group as they were
C14_PrivateWorkingCopies ==
    [][/\ ListsKept'
       /\ (pc = "scheduling" /\ pc' = "scheduling") =>
             \E g \in Groups :
                 \A h \in Groups \ {g} : GroupState(h)' = GroupState(h)]_vars

\* C14's case: of two groups under search one, of two locations, has run a
\* second pass after a first pass that drained its copy, while the other
\* group's search has not ended
C14_Witness ==
    /\ pc = "scheduling"
    /\ data.num_clusters = 2
    /\ \E g, h \in Groups :
          /\ g # h
          /\ Len(passes[g]) = 2
          /\ Len(best_clusters[g]) = 2
          /\ Drained(passes[g][1].given, data.daily_start_time,
                     data.daily_end_time) = <<>>
          /\ stask[h] = "running"
          /\ best_clusters[h] # <<>>

\* handle_unvisitable's clusters and unvisitable list once it has gone
\* through the first j leftovers
AfterLeftovers(j) ==
    handle_unvisitable(SubSeq(unvisitable_locations, 1, j), pre_rescue,
                       data.num_clusters, data.daily_start_time,
                       data.daily_end_time)

\* the groups whose schedule accepts the location
Accepting(location, clusters) ==
    {g \in DOMAIN clusters :
        schedule_single_location(location, clusters[g].schedule,
                                 data.daily_start_time, data.daily_end_time) # <<>>}

\* leftover j went where the rule sends it: into the accepting group of
\* lowest id and no other, or to the end of the unvisitable list
LeftoverRuleKept(j) ==
    LET before == AfterLeftovers(j - 1)
        after == AfterLeftovers(j)
        location == unvisitable_locations[j]
        accepting == Accepting(location, before.clusters)
        first == CHOOSE g \in accepting : \A h \in accepting : g <= h
    IN IF accepting = {}
       THEN /\ after.clusters = before.clusters
            /\ after.unvisitable = Append(before.unvisitable, location)
       ELSE /\ after.unvisitable = before.unvisitable
            /\ \A h \in DOMAIN before.clusters \ {first} :
                  after.clusters[h] = before.clusters[h]
            /\ Len(after.clusters[first].schedule)
                  = Len(before.clusters[first].schedule) + 1
            /\ Elems(before.clusters[first].schedule)
                  \subseteq Elems(after.clusters[first].schedule)
            /\ schedule_single_location(location, before.clusters[first].schedule,
                                        data.daily_start_time,
                                        data.daily_end_time)[1]
                  \in Elems(after.clusters[first].schedule)

EntriesNamed(schedule, name) ==
    Cardinality({i \in 1..Len(schedule) : schedule[i].name = name})

\* how many times the list holds the location
TimesIn(list, location) ==
    Cardinality({i \in 1..Len(list) : list[i] = location})

\* the location is once in the schedules and the unvisitable list together
OnceIn(location, schedules, unvisitable) ==
    SumSeq([i \in 1..Len(schedules) |-> EntriesNamed(schedules[i], location.name)])
        + TimesIn(unvisitable, location) = 1

\* the final schedules, in group order
FinalSchedules ==
    [c \in 1..data.num_clusters |-> grouped_clusters[c - 1].schedule]

\* C16: once handle_unvisitable has returned every location of the request
\* is exactly once in the groups' final schedules and the final unvisitable
\* list together, and these hold nothing else; every pass of a group's
\* search leaves each location of the group exactly once in its schedule
\* and its unvisitable list together, after as many selections as the group
\* has locations
C16_Conservation ==
    /\ pc = "done" =>
          /\ \A i \in 1..Len(data.points) :
                OnceIn(data.points[i], FinalSchedules, final_unvisitable)
          /\ SumSeq([c \in 1..data.num_clusters |-> Len(FinalSchedules[c])])
                + Len(final_unvisitable) = Len(data.points)
    /\ \A g \in DOMAIN passes :
          \A a \in 1..Len(passes[g]) :
              /\ \A i \in 1..Len(passes[g][a].given) :
                    OnceIn(passes[g][a].given[i], <<passes[g][a].schedule>>,
                           passes[g][a].unvisitable)
              /\ Len(passes[g][a].schedule) + Len(passes[g][a].unvisitable)
                    = Len(passes[g][a].given)

\* C16's case: of three locations in two groups one is scheduled by its
\* group, one is given up by its group and placed by handle_unvisitable, and
\* one stays unvisitable
C16_Witness ==
    /\ pc = "done"
    /\ Len(data.points) = 3
    /\ data.num_clusters = 2
    /\ Len(final_unvisitable) = 1
    /\ Len(unvisitable_locations) = 2
    /\ \E g \in Groups :
          pre_rescue[g].schedule # <<>> /\ pre_rescue[g].unvisitable # <<>>

====
